---- MODULE Spec2Model ----
(***************************************************************************)
(* Model of generate_op_defs_core.py (the op-definition struct generator)  *)
(* and of test/ops/dml_test_util.py (should_skip_test).                    *)
(*                                                                         *)
(* Text is modelled as a sequence of one-character strings, so that        *)
(* str.replace and str.title are computed character by character.  An      *)
(* f-string template is modelled as a record with one field per hole of    *)
(* the template; a file is the sequence of the chunks written to it.       *)
(***************************************************************************)
EXTENDS Integers, Sequences, FiniteSets, TLC

VARIABLES pc, runs, op_name, op_list, i, header_file, impl_file,
          test_pattern, test_args, skipped

vars == <<pc, runs, op_name, op_list, i, header_file, impl_file,
          test_pattern, test_args, skipped>>

gen_vars == <<pc, runs, op_name, op_list, i, header_file, impl_file>>

test_vars == <<test_pattern, test_args, skipped>>

-----------------------------------------------------------------------------
(* Bounds *)

\* longest registry (op_list.op) the loader returns
MaxOps == 2

\* number of generator invocations that are followed
MaxRuns == 2

\* longest argument list handed to should_skip_test
MaxTestArgs == 2

-----------------------------------------------------------------------------
(* Text helpers *)

Range(s) == {s[k] : k \in 1..Len(s)}

IsPrefix(p, s) == Len(p) <= Len(s) /\ SubSeq(s, 1, Len(p)) = p

Drop(s, n) == SubSeq(s, n + 1, Len(s))

\* str.replace(old, new): leftmost non-overlapping occurrences, old non-empty
RECURSIVE replace(_, _, _)
replace(s, old, new) ==
    IF s = <<>> THEN <<>>
    ELSE IF IsPrefix(old, s) THEN new \o replace(Drop(s, Len(old)), old, new)
    ELSE <<Head(s)>> \o replace(Tail(s), old, new)

LowerCase == <<"a","b","c","d","e","f","g","h","i","j","k","l","m",
               "n","o","p","q","r","s","t","u","v","w","x","y","z">>

UpperCase == <<"A","B","C","D","E","F","G","H","I","J","K","L","M",
               "N","O","P","Q","R","S","T","U","V","W","X","Y","Z">>

IsCased(c) == c \in Range(LowerCase) \cup Range(UpperCase)

IndexIn(c, alphabet) == CHOOSE k \in 1..Len(alphabet) : alphabet[k] = c

upper(c) == IF c \in Range(LowerCase) THEN UpperCase[IndexIn(c, LowerCase)] ELSE c

lower(c) == IF c \in Range(UpperCase) THEN LowerCase[IndexIn(c, UpperCase)] ELSE c

\* str.title(): a cased character is upper-cased when it follows an uncased
\* character (or starts the string) and lower-cased otherwise
RECURSIVE title_from(_, _)
title_from(s, previous_is_cased) ==
    IF s = <<>> THEN <<>>
    ELSE <<IF ~IsCased(Head(s)) THEN Head(s)
           ELSE IF previous_is_cased THEN lower(Head(s))
           ELSE upper(Head(s))>>
         \o title_from(Tail(s), IsCased(Head(s)))

title(s) == title_from(s, FALSE)

-----------------------------------------------------------------------------
(* The generator's functions *)

\* the two tests of _append_args in the other order
ArgumentDesc_type_list_first(arg) ==
    IF Len(arg.type_list_attr) > 0
    THEN [name |-> arg.name, tensor_count |-> "SequenceAttrList",
          attr_ref |-> <<arg.type_list_attr>>]
    ELSE IF Len(arg.number_attr) > 0
    THEN [name |-> arg.name, tensor_count |-> "SequenceAttrInt",
          attr_ref |-> <<arg.number_attr>>]
    ELSE [name |-> arg.name, tensor_count |-> "Single", attr_ref |-> <<>>]

\* one ArgumentDesc{...} line; attr_ref holds the optional third initializer
ArgumentDesc(arg) ==
    IF Len(arg.number_attr) > 0
    THEN [name |-> arg.name, tensor_count |-> "SequenceAttrInt",
          attr_ref |-> <<arg.number_attr>>]
    ELSE IF Len(arg.type_list_attr) > 0
    THEN [name |-> arg.name, tensor_count |-> "SequenceAttrList",
          attr_ref |-> <<arg.type_list_attr>>]
    ELSE [name |-> arg.name, tensor_count |-> "Single", attr_ref |-> <<>>]

RECURSIVE _append_args(_, _)
_append_args(arg_metadata, arg_list) ==
    IF arg_list = <<>> THEN arg_metadata
    ELSE _append_args(Append(arg_metadata, ArgumentDesc(Head(arg_list))),
                      Tail(arg_list))

AttributeTypePrefix == <<"A","t","t","r","i","b","u","t","e","T","y","p","e",":",":">>

enum_value(attr) ==
    AttributeTypePrefix
        \o replace(replace(title(attr.type), <<"(">>, <<>>), <<")">>, <<>>)

_append_attr(attr_metadata, attr) ==
    Append(attr_metadata, [name |-> attr.name, type |-> enum_value(attr)])

\* str.replace(old, new, 1)
RECURSIVE replace_first(_, _, _)
replace_first(s, old, new) ==
    IF s = <<>> THEN <<>>
    ELSE IF IsPrefix(old, s) THEN new \o Drop(s, Len(old))
    ELSE <<Head(s)>> \o replace_first(Tail(s), old, new)

\* only the first '>' replaced
struct_name_first_only(operator) == replace_first(operator.name, <<">">>, <<"_">>)

struct_name(operator) == replace(operator.name, <<">">>, <<"_">>)

arg_names(operator) ==
    [k \in 1..Len(operator.input_arg) |-> operator.input_arg[k].name]
        \o [k \in 1..Len(operator.output_arg) |-> operator.output_arg[k].name]

\* the two _append_args calls in the other order
arg_metadata_outputs_first(operator) ==
    _append_args(_append_args(<<>>, operator.output_arg), operator.input_arg)

arg_metadata(operator) ==
    _append_args(_append_args(<<>>, operator.input_arg), operator.output_arg)

Template == <<"t","e","m","p","l","a","t","e">>

\* the enumerator taken from the attribute name as it is
attr_name_unmodified(attr) == attr.name

attr_name_cpp(attr) == replace(attr.name, Template, Template \o <<"_">>)

attr_names(operator) ==
    [k \in 1..Len(operator.attr) |-> attr_name_cpp(operator.attr[k])]

RECURSIVE attr_metadata_from(_, _)
attr_metadata_from(attr_metadata, attrs) ==
    IF attrs = <<>> THEN attr_metadata
    ELSE attr_metadata_from(_append_attr(attr_metadata, Head(attrs)), Tail(attrs))

attr_metadata(operator) == attr_metadata_from(<<>>, operator.attr)

_generate_op_struct(operator) ==
    [kind |-> "struct",
     struct_name |-> struct_name(operator),
     name |-> operator.name,
     arg_names |-> arg_names(operator),
     input_arg_count |-> Len(operator.input_arg),
     output_arg_count |-> Len(operator.output_arg),
     argument_descs |-> arg_metadata(operator),
     attr_names |-> attr_names(operator),
     attribute_count |-> Len(operator.attr),
     attribute_descs |-> attr_metadata(operator)]

_generate_op_struct_def(operator) ==
    [kind |-> "struct_def",
     struct_name |-> replace(operator.name, <<">">>, <<"_">>),
     attribute_count |-> Len(operator.attr)]

-----------------------------------------------------------------------------
(* The registry: operator schemas TF_GetAllOpList can return *)

Arg(name, number_attr, type_list_attr) ==
    [name |-> name, number_attr |-> number_attr, type_list_attr |-> type_list_attr]

Attr(name, type) == [name |-> name, type |-> type]

NamespaceTestStringOutput == <<"N","a","m","e","s","p","a","c","e",">","T","e","s","t","S","t","r","i","n","g","O","u","t","p","u","t">>

\* all arguments single tensors, no attributes
OpTestStringOutput ==
    [name |-> NamespaceTestStringOutput,
     input_arg |-> <<Arg(<<"i","n","p","u","t">>, <<>>, <<>>)>>,
     output_arg |-> <<Arg(<<"o","u","t","p","u","t","1">>, <<>>, <<>>), Arg(<<"o","u","t","p","u","t","2">>, <<>>, <<>>)>>,
     attr |-> <<>>]

Foo == <<"F","o","o">>

\* every combination of number_attr and type_list_attr; the reserved word
\* as an attribute name
OpFoo ==
    [name |-> Foo,
     input_arg |-> <<Arg(<<"v">>, <<"N">>, <<>>), Arg(<<"c">>, <<>>, <<"T">>)>>,
     output_arg |-> <<Arg(<<"b">>, <<"N">>, <<"T">>), Arg(<<"s">>, <<>>, <<>>)>>,
     attr |-> <<Attr(<<"N">>, <<"i","n","t">>), Attr(<<"T">>, <<"l","i","s","t","(","t","y","p","e",")">>), Attr(Template, <<"s","t","r","i","n","g">>)>>]

\* two '>' in the name; an attribute name that contains the reserved word
OpABC ==
    [name |-> <<"A",">","B",">","C">>,
     input_arg |-> <<>>,
     output_arg |-> <<Arg(<<"y">>, <<>>, <<>>)>>,
     attr |-> <<Attr(Template \o <<"s">>, <<"l","i","s","t","(","i","n","t",")">>)>>]

\* a name that differs from OpABC's only where that one has '>'; an
\* attribute type outside the vocabulary of op_def.proto
OpA_BC ==
    [name |-> <<"A","_","B",">","C">>,
     input_arg |-> <<Arg(<<"x">>, <<>>, <<"T">>)>>,
     output_arg |-> <<>>,
     attr |-> <<Attr(<<"T">>, <<"a","n","y">>)>>]

Catalog == {OpTestStringOutput, OpFoo, OpABC, OpA_BC}

RECURSIVE SeqsUpTo(_, _)
SeqsUpTo(S, n) ==
    IF n = 0 THEN {<<>>}
    ELSE SeqsUpTo(S, n - 1)
             \cup {Append(s, e) : s \in SeqsUpTo(S, n - 1), e \in S}

\* op names are the registry's keys: no name occurs twice in one registry
Registries ==
    {r \in SeqsUpTo(Catalog, MaxOps) :
        \A j, k \in 1..Len(r) : j /= k => r[j].name /= r[k].name}

\* values of --op_name: the default, an op's name, a proper prefix of it
OpNameArgs == {<<>>, Foo, SubSeq(Foo, 1, 2)}

-----------------------------------------------------------------------------
(* File operations *)

\* open(path, "a") in place of open(path, "w")
open_a_write(file, chunk) == Append(file, chunk)

\* open(path, "w") followed by one write
open_w_write(file, chunk) == <<chunk>>

\* one write to a file opened with "a"
write(file, chunk) == Append(file, chunk)

HeaderBanner == [kind |-> "banner", pragma_once |-> TRUE, include |-> <<>>]

ImplBanner == [kind |-> "banner", pragma_once |-> FALSE, include |-> <<"op_defs.h">>]

CloseNamespace(ns) == [kind |-> "close", ns |-> ns]

Stale == [kind |-> "stale"]

\* op.name.startswith(args.op_name) in place of the comparison
selected_by_prefix(name_arg, operator) == IsPrefix(name_arg, operator.name)

\* the loops' condition: not args.op_name or (args.op_name == op.name)
selected(name_arg, operator) == name_arg = <<>> \/ name_arg = operator.name

-----------------------------------------------------------------------------
(* The driver (__main__), one action per statement block *)

Init ==
    /\ pc = "exited"
    /\ runs = 0
    /\ op_name = <<>>
    /\ op_list = <<>>
    /\ i = 1
    /\ header_file \in {<<>>, <<Stale>>}
    /\ impl_file \in {<<>>, <<Stale>>}
    /\ test_pattern = <<>>
    /\ test_args = <<>>
    /\ skipped = FALSE

\* a new invocation; parser.parse_args()
ParseArgs ==
    /\ pc = "exited"
    /\ runs < MaxRuns
    /\ \E n \in OpNameArgs : op_name' = n
    /\ pc' = "load"
    /\ UNCHANGED <<runs, op_list, i, header_file, impl_file, test_vars>>

\* TF_GetAllOpList, TF_GetBuffer, ParseFromString
GetAllOpList ==
    /\ pc = "load"
    /\ \E r \in Registries : op_list' = r
    /\ pc' = "header_open"
    /\ UNCHANGED <<runs, op_name, i, header_file, impl_file, test_vars>>

WriteHeaderBanner ==
    /\ pc = "header_open"
    /\ header_file' = open_w_write(header_file, HeaderBanner)
    /\ i' = 1
    /\ pc' = "header_loop"
    /\ UNCHANGED <<runs, op_name, op_list, impl_file, test_vars>>

WriteHeaderOp ==
    /\ pc = "header_loop"
    /\ i <= Len(op_list)
    /\ header_file' = IF selected(op_name, op_list[i])
                      THEN write(header_file, _generate_op_struct(op_list[i]))
                      ELSE header_file
    /\ i' = i + 1
    /\ UNCHANGED <<pc, runs, op_name, op_list, impl_file, test_vars>>

CloseHeader ==
    /\ pc = "header_loop"
    /\ i > Len(op_list)
    /\ header_file' = write(write(header_file, CloseNamespace("tfdml")),
                            CloseNamespace("ops"))
    /\ pc' = "impl_open"
    /\ UNCHANGED <<runs, op_name, op_list, i, impl_file, test_vars>>

WriteImplBanner ==
    /\ pc = "impl_open"
    /\ impl_file' = open_w_write(impl_file, ImplBanner)
    /\ i' = 1
    /\ pc' = "impl_loop"
    /\ UNCHANGED <<runs, op_name, op_list, header_file, test_vars>>

WriteImplOp ==
    /\ pc = "impl_loop"
    /\ i <= Len(op_list)
    /\ impl_file' = IF selected(op_name, op_list[i])
                    THEN write(impl_file, _generate_op_struct_def(op_list[i]))
                    ELSE impl_file
    /\ i' = i + 1
    /\ UNCHANGED <<pc, runs, op_name, op_list, header_file, test_vars>>

CloseImpl ==
    /\ pc = "impl_loop"
    /\ i > Len(op_list)
    /\ impl_file' = write(write(impl_file, CloseNamespace("tfdml")),
                          CloseNamespace("ops"))
    /\ pc' = "exited"
    /\ runs' = runs + 1
    /\ UNCHANGED <<op_name, op_list, i, header_file, test_vars>>

Next ==
    \/ ParseArgs
    \/ GetAllOpList
    \/ WriteHeaderBanner
    \/ WriteHeaderOp
    \/ CloseHeader
    \/ WriteImplBanner
    \/ WriteImplOp
    \/ CloseImpl

Spec == Init /\ [][Next]_vars

TypeOK == pc \in {"exited", "load", "header_open", "header_loop", "impl_open", "impl_loop"}

-----------------------------------------------------------------------------
(* test/ops/dml_test_util.py *)

\* a pattern is a sequence of tokens: a literal character or ".", each
\* optionally followed by "*"
Tok(c, star) == [c |-> c, star |-> star]

accepts(c, ch) == c = "." \/ c = ch

\* length of the longest run of characters at the start of s that c accepts
RECURSIVE run_length(_, _)
run_length(c, s) ==
    IF s /= <<>> /\ accepts(c, Head(s)) THEN 1 + run_length(c, Tail(s)) ELSE 0

\* the backtracking matcher: does the pattern match at the start of s
RECURSIVE match_here(_, _)
match_here(pattern, s) ==
    IF pattern = <<>> THEN TRUE
    ELSE IF Head(pattern).star
    THEN \E n \in 0..run_length(Head(pattern).c, s) :
            match_here(Tail(pattern), Drop(s, n))
    ELSE /\ s /= <<>>
         /\ accepts(Head(pattern).c, Head(s))
         /\ match_here(Tail(pattern), Tail(s))

\* re.match(pattern, string) is not None
re_match(pattern, string) == match_here(pattern, string)

\* re.search in place of re.match
should_skip_test_search(pattern, args) ==
    \E k \in 1..Len(args) :
        \E a \in 0..Len(args[k]) : re_match(pattern, Drop(args[k], a))

should_skip_test(pattern, args) ==
    \E k \in 1..Len(args) : re_match(pattern, args[k])

TestPatterns ==
    {<<Tok("g", FALSE), Tok("p", FALSE), Tok("u", FALSE), Tok(".", TRUE)>>,
     <<Tok("g", FALSE), Tok("p", FALSE), Tok("u", FALSE)>>,
     <<Tok("p", FALSE), Tok("u", FALSE)>>,
     <<Tok("g", TRUE), Tok("p", FALSE), Tok("u", FALSE)>>,
     <<Tok("c", FALSE), Tok(".", FALSE), Tok("u", FALSE), Tok("0", FALSE)>>,
     <<Tok(".", TRUE), Tok("0", FALSE)>>,
     <<>>}

TestStrings == {<<"g","p","u","0">>, <<"c","p","u","0">>, <<"g","p">>, <<>>}

CallShouldSkipTest ==
    /\ \E p \in TestPatterns, a \in SeqsUpTo(TestStrings, MaxTestArgs) :
          /\ test_pattern' = p
          /\ test_args' = a
          /\ skipped' = should_skip_test(p, a)
    /\ UNCHANGED gen_vars

NextTest == CallShouldSkipTest

SpecTest == Init /\ [][NextTest]_vars

-----------------------------------------------------------------------------
(* Vocabulary used by the properties *)

\* the attribute type strings of op_def.proto
Vocabulary ==
    {<<"i","n","t">>,
     <<"f","l","o","a","t">>,
     <<"b","o","o","l">>,
     <<"s","t","r","i","n","g">>,
     <<"t","y","p","e">>,
     <<"s","h","a","p","e">>,
     <<"t","e","n","s","o","r">>,
     <<"f","u","n","c">>,
     <<"l","i","s","t","(","i","n","t",")">>,
     <<"l","i","s","t","(","f","l","o","a","t",")">>,
     <<"l","i","s","t","(","b","o","o","l",")">>,
     <<"l","i","s","t","(","s","t","r","i","n","g",")">>,
     <<"l","i","s","t","(","t","y","p","e",")">>,
     <<"l","i","s","t","(","s","h","a","p","e",")">>,
     <<"l","i","s","t","(","t","e","n","s","o","r",")">>,
     <<"l","i","s","t","(","f","u","n","c",")">>}

\* the files hold nothing but what the current invocation has written
HeaderCurrent ==
    pc \in {"header_loop", "impl_open", "impl_loop"} \/ (pc = "exited" /\ runs > 0)

Completed == pc = "exited" /\ runs > 0

Structs(file) == SelectSeq(file, LAMBDA c : c.kind = "struct")

StructDefs(file) == SelectSeq(file, LAMBDA c : c.kind = "struct_def")

OpNamed(n) == CHOOSE o \in Range(op_list) : o.name = n

\* the registry's operators the filter lets through, in registry order
ExpectedOps ==
    SelectSeq(op_list, LAMBDA o : op_name = <<>> \/ o.name = op_name)

\* '>' turned into '_' position by position
Sanitized(name) == [k \in 1..Len(name) |-> IF name[k] = ">" THEN "_" ELSE name[k]]

-----------------------------------------------------------------------------
(* Properties of the generator *)

\* C1: every argument, input or output, gets exactly one ArgumentDesc, whose
\* cardinality is SequenceAttrInt recording number_attr when number_attr is
\* non-empty, else SequenceAttrList recording type_list_attr when that is
\* non-empty, else Single with no attribute reference.
C1_CardinalityByPriority ==
    HeaderCurrent =>
        \A k \in 1..Len(header_file) :
            header_file[k].kind = "struct" =>
                LET op == OpNamed(header_file[k].name)
                    args == op.input_arg \o op.output_arg
                    descs == header_file[k].argument_descs
                IN  /\ Len(descs) = Len(args)
                    /\ \A j \in 1..Len(args) :
                          /\ args[j].number_attr /= <<>> =>
                                /\ descs[j].tensor_count = "SequenceAttrInt"
                                /\ descs[j].attr_ref = <<args[j].number_attr>>
                          /\ (args[j].number_attr = <<>> /\ args[j].type_list_attr /= <<>>) =>
                                /\ descs[j].tensor_count = "SequenceAttrList"
                                /\ descs[j].attr_ref = <<args[j].type_list_attr>>
                          /\ (args[j].number_attr = <<>> /\ args[j].type_list_attr = <<>>) =>
                                /\ descs[j].tensor_count = "Single"
                                /\ descs[j].attr_ref = <<>>

\* a struct has been written for an operator with an argument of each kind,
\* one of them with both fields set
C1_Witness ==
    /\ HeaderCurrent
    /\ \E k \in 1..Len(header_file) :
          /\ header_file[k].kind = "struct"
          /\ LET op == OpNamed(header_file[k].name)
                 args == op.input_arg \o op.output_arg
                 descs == header_file[k].argument_descs
             IN  /\ \E j \in 1..Len(args) :
                       /\ args[j].number_attr /= <<>>
                       /\ args[j].type_list_attr /= <<>>
                       /\ descs[j].tensor_count = "SequenceAttrInt"
                 /\ \E j \in 1..Len(args) : descs[j].tensor_count = "SequenceAttrList"
                 /\ \E j \in 1..Len(args) : descs[j].tensor_count = "Single"

\* C2: argument_descs has len(input_arg) + len(output_arg) entries, the
\* inputs first and then the outputs, each list in its order, and entry j
\* names the same argument as enumerator j of the Argument enumeration.
C2_ArgumentDescsInputThenOutput ==
    HeaderCurrent =>
        \A k \in 1..Len(header_file) :
            header_file[k].kind = "struct" =>
                LET op == OpNamed(header_file[k].name)
                    descs == header_file[k].argument_descs
                    enum == header_file[k].arg_names
                    n_in == Len(op.input_arg)
                    n_out == Len(op.output_arg)
                IN  /\ Len(descs) = n_in + n_out
                    /\ Len(enum) = n_in + n_out
                    /\ header_file[k].input_arg_count = n_in
                    /\ header_file[k].output_arg_count = n_out
                    /\ \A j \in 1..n_in : descs[j].name = op.input_arg[j].name
                    /\ \A j \in 1..n_out : descs[n_in + j].name = op.output_arg[j].name
                    /\ \A j \in 1..(n_in + n_out) : descs[j].name = enum[j]

\* a struct has been written for an operator with two inputs and two outputs
C2_Witness ==
    /\ HeaderCurrent
    /\ \E k \in 1..Len(header_file) :
          /\ header_file[k].kind = "struct"
          /\ header_file[k].input_arg_count = 2
          /\ header_file[k].output_arg_count = 2
          /\ Len(header_file[k].argument_descs) = 4

\* C3: the struct_name values of the structs emitted in one run are
\* pairwise distinct.
C3_StructNamesDistinct ==
    HeaderCurrent =>
        \A j, k \in 1..Len(header_file) :
            (/\ j /= k
             /\ header_file[j].kind = "struct"
             /\ header_file[k].kind = "struct")
                => header_file[j].struct_name /= header_file[k].struct_name

\* C4: an attribute whose type is outside the vocabulary aborts the run:
\* no type tag is emitted for it and no run that selects it completes.
C4_UnknownAttributeTypeAborts ==
    /\ HeaderCurrent =>
          \A k \in 1..Len(header_file) :
              header_file[k].kind = "struct" =>
                  LET op == OpNamed(header_file[k].name)
                  IN  \A j \in 1..Len(header_file[k].attribute_descs) :
                          j <= Len(op.attr) => op.attr[j].type \in Vocabulary
    /\ Completed =>
          \A k \in 1..Len(ExpectedOps) :
              \A j \in 1..Len(ExpectedOps[k].attr) :
                  ExpectedOps[k].attr[j].type \in Vocabulary

\* C5: a completed run leaves in each file one entry for exactly the
\* registry's operators whose name equals --op_name (all of them when it
\* is empty), in registry order.
C5_FilterExactInRegistryOrder ==
    Completed =>
        LET structs == Structs(header_file)
            defs == StructDefs(impl_file)
        IN  /\ Len(structs) = Len(ExpectedOps)
            /\ Len(defs) = Len(ExpectedOps)
            /\ \A k \in 1..Len(structs) :
                  k <= Len(ExpectedOps) => structs[k].name = ExpectedOps[k].name
            /\ \A k \in 1..Len(defs) :
                  k <= Len(ExpectedOps) =>
                     /\ defs[k].struct_name = Sanitized(ExpectedOps[k].name)
                     /\ defs[k].attribute_count = Len(ExpectedOps[k].attr)

\* a run over a registry of two operators, filtered by the name of one
C5_Witness ==
    /\ Completed
    /\ op_name = Foo
    /\ Len(op_list) = 2
    /\ Len(Structs(header_file)) = 1
    /\ Len(StructDefs(impl_file)) = 1
    /\ Structs(header_file)[1].name = Foo

HeaderText(ops) ==
    <<HeaderBanner>>
        \o [k \in 1..Len(ops) |-> _generate_op_struct(ops[k])]
        \o <<CloseNamespace("tfdml"), CloseNamespace("ops")>>

ImplText(ops) ==
    <<ImplBanner>>
        \o [k \in 1..Len(ops) |-> _generate_op_struct_def(ops[k])]
        \o <<CloseNamespace("tfdml"), CloseNamespace("ops")>>

\* C6: after a completed run both files are a function of that run's
\* schema sequence and filter alone: nothing an earlier run wrote, and
\* nothing that was in the files before, survives.
C6_FilesDependOnLastRunOnly ==
    Completed =>
        /\ header_file = HeaderText(ExpectedOps)
        /\ impl_file = ImplText(ExpectedOps)

\* a second run has completed over the files the first one left
C6_Witness ==
    /\ Completed
    /\ runs >= 2
    /\ Len(ExpectedOps) > 0

\* C7: the struct identifier in the declaration and in the definitions is
\* the operator name with every '>' replaced by '_' and nothing else
\* changed; the name constant is the operator name itself.
C7_StructNameSanitized ==
    Completed =>
        LET structs == Structs(header_file)
            defs == StructDefs(impl_file)
        IN  /\ \A k \in 1..Len(structs) :
                  k <= Len(ExpectedOps) =>
                     /\ structs[k].struct_name = Sanitized(ExpectedOps[k].name)
                     /\ structs[k].name = ExpectedOps[k].name
            /\ \A k \in 1..Len(defs) :
                  k <= Len(ExpectedOps) =>
                     defs[k].struct_name = Sanitized(ExpectedOps[k].name)

Namespace_TestStringOutput == <<"N","a","m","e","s","p","a","c","e","_","T","e","s","t","S","t","r","i","n","g","O","u","t","p","u","t">>

\* both files hold the entry of "Namespace>TestStringOutput", and of an
\* operator whose name has two '>'
C7_Witness ==
    /\ Completed
    /\ \E k \in 1..Len(header_file) :
          /\ header_file[k].kind = "struct"
          /\ header_file[k].name = NamespaceTestStringOutput
          /\ header_file[k].struct_name = Namespace_TestStringOutput
    /\ \E k \in 1..Len(impl_file) :
          /\ impl_file[k].kind = "struct_def"
          /\ impl_file[k].struct_name = Namespace_TestStringOutput
    /\ \E k \in 1..Len(header_file) :
          /\ header_file[k].kind = "struct"
          /\ Cardinality({j \in 1..Len(header_file[k].name) :
                             header_file[k].name[j] = ">"}) = 2

\* C8: an attribute named "template" gets the enumerator template_ while
\* the string literal of its AttributeDesc stays "template".
C8_TemplateEnumeratorSuffixed ==
    HeaderCurrent =>
        \A k \in 1..Len(header_file) :
            header_file[k].kind = "struct" =>
                LET op == OpNamed(header_file[k].name)
                IN  /\ Len(header_file[k].attr_names) = Len(op.attr)
                    /\ Len(header_file[k].attribute_descs) = Len(op.attr)
                    /\ \A j \in 1..Len(op.attr) :
                          op.attr[j].name = Template =>
                             /\ header_file[k].attr_names[j] = Append(Template, "_")
                             /\ header_file[k].attribute_descs[j].name = Template

\* a struct has been written for an operator with an attribute "template"
C8_Witness ==
    /\ HeaderCurrent
    /\ \E k \in 1..Len(header_file) :
          /\ header_file[k].kind = "struct"
          /\ \E j \in 1..Len(header_file[k].attribute_descs) :
                /\ header_file[k].attribute_descs[j].name = Template
                /\ header_file[k].attr_names[j] = <<"t","e","m","p","l","a","t","e","_">>

\* C10: an attribute whose name is not exactly "template" keeps its name
\* as enumerator, so distinct names of one operator give distinct
\* enumerators.
C10_OtherAttributeNamesUnchanged ==
    HeaderCurrent =>
        \A k \in 1..Len(header_file) :
            header_file[k].kind = "struct" =>
                LET op == OpNamed(header_file[k].name)
                    enum == header_file[k].attr_names
                IN  /\ \A j \in 1..Len(enum) :
                          (j <= Len(op.attr) /\ op.attr[j].name /= Template)
                              => enum[j] = op.attr[j].name
                    /\ \A j, l \in 1..Len(enum) : j /= l => enum[j] /= enum[l]

-----------------------------------------------------------------------------
(* Properties of should_skip_test *)

\* the strings of the pattern's language
RECURSIVE InLanguage(_, _)
InLanguage(pattern, s) ==
    IF pattern = <<>> THEN s = <<>>
    ELSE IF Head(pattern).star
    THEN \E n \in 0..Len(s) :
            /\ \A j \in 1..n : Head(pattern).c \in {".", s[j]}
            /\ InLanguage(Tail(pattern), SubSeq(s, n + 1, Len(s)))
    ELSE /\ Len(s) > 0
         /\ Head(pattern).c \in {".", s[1]}
         /\ InLanguage(Tail(pattern), SubSeq(s, 2, Len(s)))

\* C9: should_skip_test is true exactly when some string of args has a
\* prefix in the pattern's language: a match that starts further inside
\* does not count, the match need not reach the end, and empty args give
\* false.
C9_SkipIffSomeArgMatchesAtStart ==
    /\ skipped <=>
          \E k \in 1..Len(test_args) :
              \E n \in 0..Len(test_args[k]) :
                  InLanguage(test_pattern, SubSeq(test_args[k], 1, n))
    /\ test_args = <<>> => ~skipped

\* a call that returned false although the pattern matches inside an
\* argument
C9_Witness ==
    /\ ~skipped
    /\ test_args /= <<>>
    /\ \E k \in 1..Len(test_args) :
          \E a \in 2..Len(test_args[k]) :
              \E b \in a..Len(test_args[k]) :
                  InLanguage(test_pattern, SubSeq(test_args[k], a, b))

====
